---- MODULE Spec2Model ----
(***************************************************************************)
(* Model of the ANN class of examples/es6/machine-learning/ann.js.         *)
(*                                                                         *)
(* Tensors are abstracted to their shape (dims), a provenance term (val:   *)
(* the sequence of leaf data the tensor was computed from) and a flag      *)
(* (bad) that records a shape mismatch raised by the array library.        *)
(* Floating point values are not represented: the validation error is an   *)
(* input of the validation step, and the learning rate alpha, which only   *)
(* scales the gradient, is left out.  numBatches is an exact rational      *)
(* (JavaScript's / does not truncate; the rounding of doubles is not       *)
(* modelled).  af.scope (memory reclamation) and the progress line logged  *)
(* every 10th epoch change no state of the network and are left out.       *)
(* Indices i, j are the 0-based ones of the code; TLA+ sequences are       *)
(* 1-based, so signal[i] of the code is signal[i+1] here.                  *)
(***************************************************************************)
EXTENDS Integers, Sequences, FiniteSets, TLC

\* ------------------------------------------------------------------ bounds
MaxLayers  == 3     \* longest layer-size sequence
MaxSamples == 3     \* largest number of rows of an input
MaxEpochs  == 2     \* largest options.maxEpochs
MaxCalls   == 2     \* top-level method calls per behaviour
MaxTrains  == 1     \* of which calls of train()

\* ------------------------------------------------------------ value sets
LayerSizes == {1, 2}      \* the sizes a layer may have
ErrLevels  == {0, 1}      \* the values _calculateError may return
Thresholds == {1, 2}      \* the values of options.maxError

VARIABLES
  layers,      \* ghost: the constructor's layer-size argument
  numLayers,   \* this.numLayers
  signal,      \* this.signal
  weights,     \* this.weights
  thrown,      \* an exception propagated out of a method
  pc,          \* "new", "idle", or the position inside train()
  input,       \* train(): input
  target,      \* train(): target
  options,     \* train(): options (batchSize, maxEpochs, maxError)
  numSamples,  \* train(): numSamples
  numBatches,  \* train(): numBatches, a rational <<num, den>>
  err,         \* train(): err
  i,           \* train(): epoch index
  j,           \* train(): batch index
  batchLog,    \* ghost: slices trained on in the current epoch
  epochLog,    \* ghost: one record per executed epoch of the current call
  console,     \* ghost: epochs reported by "Converged on Epoch"
  bpLog,       \* ghost: events of the last backPropagate
  held,        \* ghost: the prediction object the caller kept
  heldSnap,    \* ghost: its contents when predict returned
  lastOp,      \* ghost: name of the last step
  calls,       \* ghost: number of top-level calls made
  trains       \* ghost: number of train() calls made

vars == <<layers, numLayers, signal, weights, thrown, pc, input, target,
          options, numSamples, numBatches, err, i, j, batchLog, epochLog,
          console, bpLog, held, heldSnap, lastOp, calls, trains>>

\* ------------------------------------------------ the array library (af)
Tensor(r, c, v, b) == [dims |-> <<r, c>>, val |-> v, bad |-> b]

Leaf(k, a, b) == <<[k |-> k, a |-> a, b |-> b]>>

\* new af.AFArray()
EmptyArray == Tensor(0, 0, <<>>, FALSE)

\* t.dims(0), t.dims(1)
Dim0(t) == t.dims[1]
Dim1(t) == t.dims[2]

\* af.randu(rows, cols, f32).mul(range).sub(range / 2): initial weight i
randu(r, c, idx) == Tensor(r, c, Leaf("w", idx, 0), FALSE)

\* af.constant(1, rows, f32)
constant(r) == Tensor(r, 1, Leaf("one", r, 0), FALSE)

\* af.join(1, a, b): concatenation along the columns
join1(a, b) ==
  Tensor(Dim0(a), Dim1(a) + Dim1(b), a.val \o b.val,
         a.bad \/ b.bad \/ Dim0(a) # Dim0(b))

\* element-wise binary operations: sub, mul
elementWise(a, b) ==
  Tensor(Dim0(a), Dim1(a), a.val \o b.val,
         a.bad \/ b.bad \/ a.dims # b.dims)

\* element-wise operations with a scalar: rhsSub(1), mul(alpha), neg(), div(m)
scalarOp(a, op) == Tensor(Dim0(a), Dim1(a), a.val \o Leaf(op, 0, 0), a.bad)

\* af.sigmoid
sigmoid(a) == Tensor(Dim0(a), Dim1(a), a.val \o Leaf("sigmoid", 0, 0), a.bad)

\* af.transpose
transpose(a) == Tensor(Dim1(a), Dim0(a), a.val, a.bad)

\* af.matMul
matMul(a, b) ==
  Tensor(Dim0(a), Dim1(b), a.val \o b.val,
         a.bad \/ b.bad \/ Dim1(a) # Dim0(b))

\* af.matMulTT: both operands transposed
matMulTT(a, b) == matMul(transpose(a), transpose(b))

\* a.at(new Seq(first, last), af.span): rows first..last
atRows(a, first, last) ==
  Tensor(last - first + 1, Dim1(a), a.val \o Leaf("rows", first, last),
         a.bad \/ first < 0 \/ last < first \/ last >= Dim0(a))

\* a.at(af.span, new Seq(first, last)): columns first..last
atCols(a, first, last) ==
  Tensor(Dim0(a), last - first + 1, a.val \o Leaf("cols", first, last),
         a.bad \/ first < 0 \/ last < first \/ last >= Dim1(a))

\* w.addAssign(g): in place; the new contents are one update later
addAssign(w, g) ==
  Tensor(Dim0(w), Dim1(w),
         Leaf("w", w.val[1].a, w.val[1].b + 1),
         w.bad \/ g.bad \/ w.dims # g.dims)

\* obj.set(src): obj now holds src's data
set(obj, src) == src

\* obj.copy(): an independent object with the same contents.
\* A reference is [obj |-> k, own |-> t]: k = 0 is an object of its own
\* holding t, k > 0 is the object stored in this.signal[k-1].
copy(t) == [obj |-> 0, own |-> t]

NoRef == [obj |-> -1, own |-> EmptyArray]

Deref(r, sig) == IF r.obj > 0 /\ r.obj <= Len(sig) THEN sig[r.obj] ELSE r.own

\* ---------------------------------------------------------- ANN methods
\* constructor(af, layers, range): the fields after construction
Constructor(ls) ==
  [numLayers |-> Len(ls),
   signal    |-> [k \in 1..Len(ls) |-> EmptyArray],
   weights   |-> [k \in 1..(Len(ls) - 1) |-> randu(ls[k] + 1, ls[k + 1], k - 1)]]

\* deriv(out)
deriv(out) == elementWise(scalarOp(out, "rhsSub"), out)

\* addBias(input)
addBias(in) == join1(constant(Dim0(in)), in)

AnyBad(s) == \E k \in 1..Len(s) : s[k].bad

\* the layer loop of forwardPropagate, from layer index idx on
RECURSIVE FwdLoop(_, _, _, _)
FwdLoop(sig, w, n, idx) ==
  IF idx < n - 1
  THEN LET inVec  == addBias(sig[idx + 1])
           outVec == matMul(inVec, w[idx + 1])
       IN FwdLoop([sig EXCEPT ![idx + 2] = set(@, sigmoid(outVec))], w, n, idx + 1)
  ELSE sig

\* a forward pass that also writes to the first weight matrix
ForwardTouchingWeights(sig, w, n, in) ==
  IF n = 0
  THEN [signal |-> sig, weights |-> w, thrown |-> TRUE]
  ELSE LET s == FwdLoop([sig EXCEPT ![1] = set(@, in)], w, n, 0)
       IN [signal |-> s,
           weights |-> [k \in 1..Len(w) |->
                          IF k = 1 THEN addAssign(w[k], w[k]) ELSE w[k]],
           thrown |-> AnyBad(s)]

\* forwardPropagate(input): the fields afterwards.  With no layers
\* this.signal[0] is undefined and .set raises a TypeError.
forwardPropagate(sig, w, n, in) ==
  IF n = 0
  THEN [signal |-> sig, weights |-> w, thrown |-> TRUE]
  ELSE LET s == FwdLoop([sig EXCEPT ![1] = set(@, in)], w, n, 0)
       IN [signal |-> s, weights |-> w, thrown |-> AnyBad(s)]

\* the weight read at line 85 is a snapshot taken before the update
ErrWeightSnapshot(before, after) == before

\* the weight matrix read by matMulTT at line 85
ErrWeight(before, after) == after

\* one iteration of the layer loop of backPropagate
BpStep(st, sig, idx) ==
  LET inVec  == addBias(sig[idx + 1])
      delta  == transpose(elementWise(deriv(st.outVec), st.err))
      grad   == scalarOp(scalarOp(scalarOp(matMul(delta, inVec), "mul"), "neg"), "div")
      wNew   == addAssign(st.weights[idx + 1], transpose(grad))
      outVec == sig[idx + 1]
      err1   == matMulTT(delta, ErrWeight(st.weights[idx + 1], wNew))
      err2   == atCols(err1, 1, Dim1(outVec))
  IN [weights |-> [st.weights EXCEPT ![idx + 1] = wNew],
      outVec  |-> outVec,
      err     |-> set(err1, err2),
      log     |-> st.log \o
                  <<[ev |-> "update", i |-> idx, ver |-> wNew.val[1].b,
                     rows |-> Dim0(transpose(grad)), cols |-> Dim1(transpose(grad))],
                    [ev |-> "error", i |-> idx, ver |-> err1.val[Len(err1.val)].b,
                     rows |-> Dim0(err1), cols |-> Dim1(err1)],
                    [ev |-> "dropBias", i |-> idx, ver |-> 0,
                     rows |-> Dim0(err2), cols |-> Dim1(err2)]>>]

RECURSIVE BpLoop(_, _, _)
BpLoop(st, sig, idx) ==
  IF idx >= 0 THEN BpLoop(BpStep(st, sig, idx), sig, idx - 1) ELSE st

\* backPropagate(target, alpha): the fields afterwards and the event log.
\* With no layers this.signal[-1] is undefined and .sub raises a TypeError.
backPropagate(sig, w, n, tgt) ==
  IF n = 0
  THEN [signal |-> sig, weights |-> w, thrown |-> TRUE, log |-> <<>>]
  ELSE LET outVec == sig[n]
           st0 == [weights |-> w, outVec |-> outVec,
                   err |-> elementWise(outVec, tgt), log |-> <<>>]
           st  == BpLoop(st0, sig, n - 2)
       IN [signal |-> sig, weights |-> st.weights,
           thrown |-> st.err.bad \/ AnyBad(st.weights), log |-> st.log]

\* predict returning this.signal[numLayers - 1] itself
PredictNoCopy(sig, w, n, in) ==
  LET f == forwardPropagate(sig, w, n, in)
  IN [signal |-> f.signal, weights |-> f.weights, thrown |-> f.thrown,
      result |-> IF f.thrown THEN NoRef ELSE [obj |-> n, own |-> f.signal[n]]]

\* predict(input): the fields afterwards and the returned reference
predict(sig, w, n, in) ==
  LET f == forwardPropagate(sig, w, n, in)
  IN [signal |-> f.signal, weights |-> f.weights, thrown |-> f.thrown,
      result |-> IF f.thrown THEN NoRef ELSE copy(f.signal[n])]

\* ------------------------------------------------ arithmetic of train()
\* JavaScript numbers that need not be integers, as exact fractions
\* <<numerator, denominator>> with a positive denominator.
RatDiv(a, b) == <<a, b>>
RatSubInt(r, k) == <<r[1] - k * r[2], r[2]>>
RatMulInt(r, k) == <<r[1] * k, r[2]>>
IntLtRat(k, r) == k * r[2] < r[1]
RatLtInt(r, k) == r[1] < k * r[2]
RatToInt(r) == r[1] \div r[2]

\* a batch loop that also trains on the last batch
BatchCondAll(jj, nb) == IntLtRat(jj, nb)

\* j < numBatches - 1
BatchCond(jj, nb) == IntLtRat(jj, RatSubInt(nb, 1))

\* an epoch loop that runs one epoch too many
EpochCondInclusive(ii, maxEpochs) == ii <= maxEpochs

\* i < options.maxEpochs
EpochCond(ii, maxEpochs) == ii < maxEpochs

\* a convergence test that also accepts err = maxError
ConvergedOrEqual(e, maxError) == e <= maxError

\* err < options.maxError
Converged(e, maxError) == e < maxError

\* (numBatches - 1) * options.batchSize
ValStartPos(nb, batchSize) == RatToInt(RatMulInt(RatSubInt(nb, 1), batchSize))

\* the rows first..last named by the Seq a slice was taken with
SliceOf(t) == LET l == t.val[Len(t.val)] IN <<l.a, l.b>>

\* ------------------------------------------------------------ the inputs
LayerSeqs(lo, hi) == UNION {[1..n -> LayerSizes] : n \in lo..hi}

InCols  == IF numLayers >= 1 THEN layers[1] ELSE 1
OutCols == IF numLayers >= 1 THEN layers[numLayers] ELSE 1

Inputs == {Tensor(n, InCols, Leaf("in", n, 0), FALSE) : n \in 1..MaxSamples}

TargetFor(rows) == Tensor(rows, OutCols, Leaf("target", 1, 0), FALSE)

NoOptions == [batchSize |-> 1, maxEpochs |-> 0, maxError |-> 0]

\* ------------------------------------------------------------ the states
NoCall ==
  /\ thrown = FALSE
  /\ input = EmptyArray /\ target = EmptyArray /\ options = NoOptions
  /\ numSamples = 0 /\ numBatches = <<0, 1>> /\ err = 0 /\ i = 0 /\ j = 0
  /\ batchLog = <<>> /\ epochLog = <<>> /\ console = <<>>
  /\ bpLog = <<>> /\ held = NoRef /\ heldSnap = EmptyArray /\ calls = 0 /\ trains = 0

\* a network built from a layer-size sequence of the data model (L >= 2)
Init ==
  /\ layers \in LayerSeqs(2, MaxLayers)
  /\ numLayers = Constructor(layers).numLayers
  /\ signal = Constructor(layers).signal
  /\ weights = Constructor(layers).weights
  /\ pc = "idle" /\ lastOp = "constructor"
  /\ NoCall

\* before new ANN(...)
InitCtor ==
  /\ layers = <<>> /\ numLayers = 0 /\ signal = <<>> /\ weights = <<>>
  /\ pc = "new" /\ lastOp = "none"
  /\ NoCall

trainFrame == <<input, target, options, numSamples, numBatches, err, i, j>>
trainGhost == <<batchLog, epochLog, console>>

CanCall == pc = "idle" /\ ~thrown /\ calls < MaxCalls

\* new ANN(af, layers, range) with any layer-size sequence
Construct ==
  /\ pc = "new"
  /\ \E ls \in LayerSeqs(0, MaxLayers) :
       /\ layers' = ls
       /\ numLayers' = Constructor(ls).numLayers
       /\ signal' = Constructor(ls).signal
       /\ weights' = Constructor(ls).weights
  /\ pc' = "idle" /\ lastOp' = "constructor"
  /\ UNCHANGED <<thrown, trainFrame, trainGhost, bpLog, held, heldSnap, calls, trains>>

CallForwardPropagate ==
  /\ CanCall
  /\ \E in \in Inputs :
       LET f == forwardPropagate(signal, weights, numLayers, in)
       IN /\ signal' = f.signal
          /\ weights' = f.weights
          /\ thrown' = f.thrown
  /\ lastOp' = "forwardPropagate" /\ calls' = calls + 1
  /\ UNCHANGED <<layers, numLayers, pc, trainFrame, trainGhost, bpLog, held, heldSnap, trains>>

\* the target has the shape of the output of the last forward pass
CallBackPropagate ==
  /\ CanCall
  /\ IF numLayers = 0 THEN TRUE ELSE Dim0(signal[numLayers]) > 0
  /\ LET tgt == IF numLayers = 0 THEN TargetFor(1)
                ELSE TargetFor(Dim0(signal[numLayers]))
         b == backPropagate(signal, weights, numLayers, tgt)
     IN /\ signal' = b.signal
        /\ weights' = b.weights
        /\ thrown' = b.thrown
        /\ bpLog' = b.log
  /\ lastOp' = "backPropagate" /\ calls' = calls + 1
  /\ UNCHANGED <<layers, numLayers, pc, trainFrame, trainGhost, held, heldSnap, trains>>

\* the caller keeps the returned object (keep) or drops it
CallPredict ==
  /\ CanCall
  /\ \E in \in Inputs, keep \in BOOLEAN :
       LET p == predict(signal, weights, numLayers, in)
       IN /\ signal' = p.signal
          /\ weights' = p.weights
          /\ thrown' = p.thrown
          /\ IF keep /\ ~p.thrown
             THEN /\ held' = p.result
                  /\ heldSnap' = p.signal[numLayers]
             ELSE UNCHANGED <<held, heldSnap>>
  /\ lastOp' = "predict" /\ calls' = calls + 1
  /\ UNCHANGED <<layers, numLayers, pc, trainFrame, trainGhost, bpLog, trains>>

\* train(input, target, options) up to the first test of the epoch loop;
\* the options are those of the contract: 1 <= batchSize <= numSamples,
\* maxEpochs >= 1
CallTrain ==
  /\ CanCall /\ trains < MaxTrains
  /\ \E in \in Inputs, bs \in 1..MaxSamples, me \in 1..MaxEpochs,
        mx \in Thresholds :
       /\ bs <= Dim0(in)
       /\ input' = in
       /\ target' = TargetFor(Dim0(in))
       /\ options' = [batchSize |-> bs, maxEpochs |-> me, maxError |-> mx]
       /\ numSamples' = Dim0(in)
       /\ numBatches' = RatDiv(Dim0(in), bs)
       /\ pc' = IF EpochCond(0, me) THEN "batch" ELSE "return"
  /\ err' = 0 /\ i' = 0 /\ j' = 0
  /\ batchLog' = <<>> /\ epochLog' = <<>> /\ console' = <<>>
  /\ lastOp' = "train" /\ calls' = calls + 1 /\ trains' = trains + 1
  /\ UNCHANGED <<layers, numLayers, signal, weights, thrown, bpLog, held, heldSnap>>

\* one iteration of the training-batch loop
TrainBatch ==
  /\ pc = "batch" /\ ~thrown
  /\ BatchCond(j, numBatches)
  /\ LET startPos == j * options.batchSize
         endPos == startPos + options.batchSize - 1
         x == atRows(input, startPos, endPos)
         y == atRows(target, startPos, endPos)
         f == forwardPropagate(signal, weights, numLayers, x)
         b == backPropagate(f.signal, f.weights, numLayers, y)
     IN /\ signal' = f.signal
        /\ weights' = IF f.thrown THEN f.weights ELSE b.weights
        /\ thrown' = (f.thrown \/ b.thrown)
        /\ bpLog' = IF f.thrown THEN bpLog ELSE b.log
        /\ batchLog' = Append(batchLog, [x |-> SliceOf(x), y |-> SliceOf(y)])
  /\ j' = j + 1
  /\ lastOp' = "trainBatch"
  /\ UNCHANGED <<layers, numLayers, pc, input, target, options, numSamples,
                 numBatches, err, i, epochLog, console, held, heldSnap, calls,
                 trains>>

\* validation with the last batch, the convergence test and the step to
\* the next epoch; e is the value of _calculateError
TrainValidate ==
  /\ pc = "batch" /\ ~thrown
  /\ ~BatchCond(j, numBatches)
  /\ \E e \in ErrLevels :
       LET startPos == ValStartPos(numBatches, options.batchSize)
           endPos == numSamples - 1
           xs == atRows(input, startPos, endPos)
           ys == atRows(target, startPos, endPos)
           p == predict(signal, weights, numLayers, xs)
       IN /\ signal' = p.signal
          /\ weights' = p.weights
          /\ thrown' = (p.thrown \/ ys.bad)
          /\ err' = e
          /\ epochLog' = Append(epochLog,
                           [batches |-> batchLog, x |-> SliceOf(xs),
                            y |-> SliceOf(ys), err |-> e])
          /\ IF Converged(e, options.maxError)
             THEN /\ console' = Append(console, i + 1)
                  /\ i' = i
                  /\ pc' = "return"
             ELSE /\ console' = console
                  /\ i' = i + 1
                  /\ pc' = IF EpochCond(i + 1, options.maxEpochs)
                           THEN "batch" ELSE "return"
  /\ j' = 0 /\ batchLog' = <<>>
  /\ lastOp' = "validate"
  /\ UNCHANGED <<layers, numLayers, input, target, options, numSamples,
                 numBatches, bpLog, held, heldSnap, calls, trains>>

\* return err (pc = "return" is the state at that statement, err the value
\* returned); the frame of the call is gone afterwards
TrainReturn ==
  /\ pc = "return" /\ ~thrown
  /\ pc' = "idle"
  /\ input' = EmptyArray /\ target' = EmptyArray /\ options' = NoOptions
  /\ numSamples' = 0 /\ numBatches' = <<0, 1>> /\ err' = 0 /\ i' = 0 /\ j' = 0
  /\ batchLog' = <<>> /\ epochLog' = <<>> /\ console' = <<>>
  /\ lastOp' = "trainReturn"
  /\ UNCHANGED <<layers, numLayers, signal, weights, thrown, bpLog, held,
                 heldSnap, calls, trains>>

Next ==
  \/ CallForwardPropagate
  \/ CallBackPropagate
  \/ CallPredict
  \/ CallTrain
  \/ TrainBatch
  \/ TrainValidate
  \/ TrainReturn

NextCtor == Construct \/ Next

Spec == Init /\ [][Next]_vars

\* the constructor called with any layer-size sequence
CtorSpec == InitCtor /\ [][NextCtor]_vars

\* ------------------------------------------------------------ properties
InTrain == pc \in {"batch", "return"}

RowsOf(sl) == sl[1]..sl[2]

\* every training slice recorded for the current train() call
TrainedSlices ==
  {batchLog[k].x : k \in 1..Len(batchLog)} \cup
  UNION {{epochLog[e].batches[k].x : k \in 1..Len(epochLog[e].batches)} :
           e \in 1..Len(epochLog)}

\* the validation slice as the claims describe it
ValidationRows == ValStartPos(numBatches, options.batchSize)..(numSamples - 1)

Divides == numSamples % options.batchSize = 0

\* C1: in train(), with 1 <= batchSize <= numSamples, no row of the
\* validation slice (numBatches-1)*batchSize .. numSamples-1 is ever in a
\* slice handed to forwardPropagate/backPropagate by the training-batch loop.
C1_ValidationRowsNeverTrained ==
  (InTrain /\ options.batchSize <= numSamples)
    => \A sl \in TrainedSlices : RowsOf(sl) \cap ValidationRows = {}

\* C2: in train(), when numBatches < 2 the training-batch loop performs no
\* iteration in any epoch and every validation runs on rows 0..numSamples-1.
C2_FewBatchesNoTraining ==
  (InTrain /\ RatLtInt(numBatches, 2))
    => /\ batchLog = <<>>
       /\ \A e \in 1..Len(epochLog) :
            /\ epochLog[e].batches = <<>>
            /\ epochLog[e].x = <<0, numSamples - 1>>

\* the batches C3 expects an epoch to run, in order
ExpectedBatches ==
  [k \in 1..(numSamples \div options.batchSize - 1) |->
     [x |-> <<(k - 1) * options.batchSize, k * options.batchSize - 1>>,
      y |-> <<(k - 1) * options.batchSize, k * options.batchSize - 1>>]]

IsPrefix(a, b) == Len(a) <= Len(b) /\ \A k \in 1..Len(a) : a[k] = b[k]

C4_EarlyTermination ==
  /\ \A e \in 1..Len(epochLog) :
       epochLog[e].err < options.maxError
         => /\ e = Len(epochLog)
            /\ pc # "batch"
            /\ batchLog = <<>>
            /\ console = <<e>>
  /\ console # <<>>
       => /\ console = <<Len(epochLog)>>
          /\ epochLog[Len(epochLog)].err < options.maxError

\* train() returned after converging in epoch 1 although more were allowed
C4_Witness ==
  /\ pc = "return"
  /\ console = <<1>>
  /\ Len(epochLog) = 1
  /\ options.maxEpochs >= 2

\* what is left of train(): the epochs still allowed, each with at most
\* numSamples batch steps and one validation step, and the return
TrainMeasure ==
  IF pc = "return" THEN 0
  ELSE 1 + (options.maxEpochs - i) * (numSamples + 1) - j

\* C5: train() always terminates (every step of it is enabled unless an
\* error was raised, none is, and every step decreases a natural-valued
\* measure); it runs at most maxEpochs epochs, exactly maxEpochs when no
\* epoch's error is below maxError, and returns the validation error of the
\* last epoch executed.
C5_Terminates ==
  /\ [](/\ ~thrown
        /\ Len(epochLog) <= options.maxEpochs
        /\ InTrain => TrainMeasure >= 0
        /\ pc = "batch" => (i < options.maxEpochs /\ Len(epochLog) = i)
        /\ pc = "return"
             => /\ Len(epochLog) >= 1
                /\ err = epochLog[Len(epochLog)].err
                /\ (\A e \in 1..Len(epochLog) :
                      ~(epochLog[e].err < options.maxError))
                     => Len(epochLog) = options.maxEpochs)
  /\ [][(InTrain /\ InTrain') => TrainMeasure' < TrainMeasure]_vars

\* train() is about to return after maxEpochs epochs without converging
C5_Witness ==
  /\ pc = "return"
  /\ console = <<>>
  /\ options.maxEpochs = MaxEpochs
  /\ Len(epochLog) = MaxEpochs

\* C6: constructing a Network from a layer-size sequence with fewer than 2
\* entries fails: no Network object is produced.
C6_ConstructionFails ==
  pc # "new" => Len(layers) >= 2

\* C7: for every constructed Network, after any calls with shape-consistent
\* arguments, len(Signal) = len(Weight) + 1 = numLayers, Weight[i] has
\* layerSize[i]+1 rows and layerSize[i+1] columns, and every gradient added
\* by backPropagate has that shape.
C7_ShapeInvariant ==
  pc # "new"
    => /\ Len(signal) = Len(weights) + 1
       /\ Len(signal) = numLayers
       /\ numLayers = Len(layers)
       /\ \A k \in 1..Len(weights) :
            weights[k].dims = <<layers[k] + 1, layers[k + 1]>>
       /\ \A k \in 1..Len(bpLog) :
            bpLog[k].ev = "update"
              => <<bpLog[k].rows, bpLog[k].cols>> =
                   <<layers[bpLog[k].i + 1] + 1, layers[bpLog[k].i + 2]>>

\* the same statement for networks with at least one layer
ShapeInvariantNonEmpty == numLayers >= 1 => C7_ShapeInvariant

\* C8: predict returns an object other than Signal[L-1] whose contents are
\* those of Signal[L-1] at the return and are left unchanged by every later
\* forwardPropagate, predict, backPropagate or train call.
C8_PredictionIndependent ==
  held # NoRef
    => /\ held.obj # numLayers
       /\ held.obj = 0
       /\ Deref(held, signal) = heldSnap

\* a kept prediction, and a later call that overwrote Signal[L-1]
C8_Witness ==
  /\ held # NoRef
  /\ lastOp \in {"forwardPropagate", "predict", "validate", "trainBatch"}
  /\ signal[numLayers] # heldSnap

\* C9: one backPropagate visits the layers in the order L-2, ..., 0 and
\* updates each Weight[i] once; in iteration i the update comes first, the
\* error for layer i-1 is then computed from the updated Weight[i], and its
\* bias column is dropped before the next iteration.
C9_BackwardOrder ==
  bpLog # <<>>
    => /\ Len(bpLog) = 3 * (numLayers - 1)
       /\ \A k \in 0..(numLayers - 2) :
            LET idx == numLayers - 2 - k
                u == bpLog[3 * k + 1]
                e == bpLog[3 * k + 2]
                d == bpLog[3 * k + 3]
            IN /\ u.ev = "update" /\ u.i = idx
               /\ e.ev = "error" /\ e.i = idx
               /\ d.ev = "dropBias" /\ d.i = idx
               /\ u.ver = weights[idx + 1].val[1].b
               /\ e.ver = u.ver
               /\ e.cols = layers[idx + 1] + 1
               /\ d.cols = layers[idx + 1]

\* a backPropagate over two weight matrices has run
C9_Witness ==
  /\ numLayers = 3
  /\ Len(bpLog) = 6
  /\ lastOp \in {"backPropagate", "trainBatch"}

\* C10: weights change only in backPropagate: forwardPropagate, predict and
\* the validation step of train() leave every Weight[i] as it was.
C10_OnlyBackPropagateWrites ==
  [][weights' # weights => lastOp' \in {"backPropagate", "trainBatch"}]_vars

\* a validation step that followed a training batch
C10_Witness ==
  /\ lastOp = "validate"
  /\ \E k \in 1..Len(weights) : weights[k].val[1].b > 0

====
